---- MODULE Spec2Model ----
(***************************************************************************)
(* A model of the emission-distribution estimators, the two state-space    *)
(* classifiers and the left-right model assembler of src/hmm.py, and of    *)
(* the measurements table of src/traj.py with its cached sort label.       *)
(*                                                                         *)
(* Conventions                                                             *)
(*  - A Python dict is a function with a finite domain.                    *)
(*  - A whisker segment is what hmm.py reads of it: for the estimator the   *)
(*    vector fv, fv[i] being the value the i-th feature function returns   *)
(*    for the segment (the feature functions live in the external module   *)
(*    `features`); for the ordinal classifier the ordering key y = w.y[0]  *)
(*    read by wcmp.                                                        *)
(*  - The order in which a dict or a set is enumerated is left open by the *)
(*    language: every order is explored.                                   *)
(*  - Real numbers are kept exact: a bin width is the fraction num/den, a  *)
(*    log2-probability log2(num/den) is the record [num, den].             *)
(*  - numpy indexing: index j of an array of length n reads position j for *)
(*    0 <= j < n, position n+j for -n <= j < 0 and raises IndexError       *)
(*    otherwise; a float index is truncated (numpy of the code's era).     *)
(*  - `x ++;` (hmm.py:270,273,275) is read as x += 1.                      *)
(*  - Python's None is the string "None".                                  *)
(***************************************************************************)
EXTENDS Integers, Sequences, FiniteSets, TLC

VARIABLES
  feature_bin_deltas,   \* self._feature_bin_deltas : feature -> fraction
  feature_bin_mins,     \* self._feature_bin_mins   : feature -> value
  distributions,        \* self._distributions      : state name -> list of tables
  frames,               \* EDTwoState classifier closure: the labelled frame ids
  labelled,             \* EDTwoState classifier closure: the set of <<fid, wid>>
  wvd,                  \* the whiskers dictionary the ordinal classifier was built on
  states,               \* EDMultiState._states : list of state names
  nsteps,               \* EDMultiState._nsteps
  classmap,             \* EDMultiState classifier closure: <<fid, wid>> -> state name
  visited,              \* per frame, the order in which the last build visited its segments
  startprob,            \* LeftRightModel._startprob   : name -> log2 prob
  transitions,          \* LeftRightModel._transitions : name -> (name -> log2 prob)
  simple_model,         \* LeftRightModel._simple_model: the log2 S, T, E estimates
  measurements,         \* MeasurementsTable._measurements: the rows, in table order
  sort_state,           \* MeasurementsTable._sort_state
  ret                   \* what the last call returned (or raised)

evars == <<feature_bin_deltas, feature_bin_mins, distributions>>
cvars == <<frames, labelled>>
mvars == <<wvd, states, nsteps, classmap, visited>>
lvars == <<startprob, transitions, simple_model>>
tvars == <<measurements, sort_state>>
vars == <<feature_bin_deltas, feature_bin_mins, distributions, frames, labelled,
          wvd, states, nsteps, classmap, visited, startprob, transitions, simple_model,
          measurements, sort_state, ret>>

----------------------------------------------------------------------------
(* Bounds of the explored inputs *)

NFrames == 2          \* frame ids 0 .. NFrames-1
NSegs == 2            \* segment ids 0 .. NSegs-1
NTraj == 2            \* trajectory ids 0 .. NTraj-1
MaxRows == 2          \* rows of a training table
MaxEstimates == 2     \* estimate calls on one estimator object
MaxTableRows == 2     \* rows of a measurements table

\* feature values seen in training, and values queried with evaluate
TrainVals == {0, 63}
QueryVals == {-64, -1, 0, 31, 63, 64}

\* frame ids and states (-1: no identity) of the rows of a measurements table
TableFids == {0, 1}
TableStates == {-1, 0, 1}

----------------------------------------------------------------------------
(* Program constants *)

NFeat   == 6      \* len(self._features)
NPoints == 64     \* linspace( mn, mx, 64 )

Features == 1 .. NFeat
TwoStates == <<"junk", "whiskers">>     \* index 0 is junk, index 1 is whiskers

----------------------------------------------------------------------------
(* Inputs *)

FrameIds == 0 .. (NFrames - 1)
SegIds   == 0 .. (NSegs - 1)
TrajIds  == 0 .. (NTraj - 1)

PartialMaps(D, R) == UNION { [X -> R] : X \in SUBSET D }

\* trajectories dictionary: tid -> (fid -> wid)
Trajs == [TrajIds -> PartialMaps(FrameIds, SegIds)]

\* _itertraj: every (fid, wid) entry of every trajectory
itertraj(t) == UNION { { <<fid, t[tid][fid]>> : fid \in DOMAIN t[tid] } : tid \in DOMAIN t }

\* frames.update( v.keys() ) over traj.values()
trajframes(t) == UNION { DOMAIN t[tid] : tid \in DOMAIN t }

\* hmm.py reads a trajectories dictionary only through its flattened (fid, wid)
\* entries and their frame ids: one dictionary for each set of entries stands
\* for all the dictionaries with that set.  The sets of entries are the sets
\* of pairs with at most one segment of a frame per trajectory.
LabelSets ==
  { L \in SUBSET (FrameIds \X SegIds) :
      \A fid \in FrameIds : Cardinality({ e \in L : e[1] = fid }) <= NTraj }

\* a dictionary with the entries L: trajectory tid holds, of every frame with
\* more than tid entries, the segment of rank tid
traj_of(L) ==
  LET segs(fid) == { e[2] : e \in { x \in L : x[1] = fid } }
      rank(fid, wid) == Cardinality({ w \in segs(fid) : w < wid })
  IN [tid \in TrajIds |->
        [fid \in { f \in FrameIds : Cardinality(segs(f)) > tid } |->
           CHOOSE wid \in segs(fid) : rank(fid, wid) = tid]]

TrajReps == { traj_of(L) : L \in LabelSets }

\* feature vectors: the first feature varies independently of the others
FeatureVectors(V) == { [i \in Features |-> IF i = 1 THEN a ELSE b] : a, b \in V }

\* The table _all_features builds: one row per (fid, wid) of wvd, column 0 the
\* value self._classifier returned for the row (-1: no ground truth), columns
\* 3.. the feature vector.  Columns 1 and 2 (fid, wid) are read by nothing
\* after the classifier has run and are left out.
all_features(n) ==
  [1 .. n -> [cls : {-1} \cup { i - 1 : i \in DOMAIN TwoStates }, fv : FeatureVectors(TrainVals)]]

----------------------------------------------------------------------------
(* EDTwoState: the binary classifier *)

\* The closure returned by EDTwoState._make_classifer.  It is declared
\* classifier(wvd, traj, wid, fid) and called classify(wvd, traj, frameId,
\* segmentId): its `wid` is the caller's frame id, its `fid` the caller's
\* segment id, and `fid in frames` tests the fourth argument.
classifier(fr, lab, frameId, segmentId) ==
  LET wid == frameId
      fid == segmentId
  IN IF fid \in fr THEN (IF <<wid, fid>> \in lab THEN 1 ELSE 0) ELSE -1

----------------------------------------------------------------------------
(* EmmissionDistributions: estimate *)

SetMin(S) == CHOOSE x \in S : \A z \in S : x <= z
SetMax(S) == CHOOSE x \in S : \A z \in S : x >= z

\* linspace(mn, mx, n) has n points, hence n-1 intervals; point k (0-based) is
\* mn + k*(mx-mn)/(n-1).  NBins is the number of intervals between the points.
NBins == NPoints - 1

linspace_step_64(mn, mx) == [num |-> mx - mn, den |-> NPoints]

\* b[1] - b[0]
linspace_step(mn, mx) == [num |-> mx - mn, den |-> NBins]

\* numpy.histogram(x, bins=b): bin k holds b[k] <= x < b[k+1], the last bin
\* also holds x = b[-1].  With b[k] = mn + k*(mx-mn)/NBins that is bin
\* floor(NBins*(x-mn)/(mx-mn)), capped at the last bin; when all edges are
\* equal (mx = mn) only the last bin, closed on both sides, holds anything.
histogram_bin(x, mn, mx) ==
  IF mx = mn THEN NBins - 1
  ELSE LET k == (NBins * (x - mn)) \div (mx - mn)
       IN IF k > NBins - 1 THEN NBins - 1 ELSE k

RECURSIVE SeqSum(_, _)
SeqSum(c, n) == IF n = 0 THEN 0 ELSE c[n] + SeqSum(c, n - 1)

add_none(c) == c

\* counts.astype(float64) + 1.0, for one bin
add_one(c) == c + 1

\* counts + 1.0, then counts /= counts.sum(), then log2: entry k is
\* log2(num/den) with num = count_k + 1 and den = sum of all (count + 1)
histogram_log2(v, mn, mx) ==
  LET bins   == [r \in DOMAIN v |-> histogram_bin(v[r], mn, mx)]
      counts == [k \in 1 .. NBins |->
                   add_one(Cardinality({ r \in DOMAIN v : bins[r] = k - 1 }))]
      tot    == SeqSum(counts, NBins)
  IN [k \in 1 .. NBins |-> [num |-> counts[k], den |-> tot]]

\* v = data[:,ic]
Column(data, f) == [r \in DOMAIN data |-> data[r].fv[f]]
ColMin(data, f) == SetMin({ data[r].fv[f] : r \in DOMAIN data })
ColMax(data, f) == SetMax({ data[r].fv[f] : r \in DOMAIN data })

\* v[mask] with mask = data[:,0]==i
Masked(data, f, i) ==
  LET rows == { r \in DOMAIN data : data[r].cls = i }
  IN [r \in rows |-> data[r].fv[f]]

\* the tables one estimate call fits for the state of index i, one per feature,
\* each over the bins of the feature's range in the whole table
fitted_tables(data, i) ==
  [f \in Features |-> histogram_log2(Masked(data, f, i), ColMin(data, f), ColMax(data, f))]

\* self._distributions[state].append( ... ), once per feature
store_tables(old, new) == old \o new

\* EmmissionDistributions.estimate with the table of _all_features.  v.min() of
\* an empty column raises ValueError before anything is stored.
estimate(data) ==
  IF DOMAIN data = {}
    THEN /\ UNCHANGED <<evars, cvars, mvars, lvars, tvars>>
         /\ ret' = [op |-> "estimate", val |-> "ValueError", data |-> data]
    ELSE /\ feature_bin_deltas' =
              [f \in Features |-> linspace_step(ColMin(data, f), ColMax(data, f))]
         /\ feature_bin_mins' = [f \in Features |-> ColMin(data, f)]
         /\ distributions' =
              [s \in DOMAIN distributions |->
                 LET i == (CHOOSE n \in DOMAIN TwoStates : TwoStates[n] = s) - 1
                 IN store_tables(distributions[s], fitted_tables(data, i))]
         /\ ret' = [op |-> "estimate", val |-> "None", data |-> data]
         /\ UNCHANGED <<cvars, mvars, lvars, tvars>>

----------------------------------------------------------------------------
(* EmmissionDistributions: evaluate *)

\* floor((val - bmin)/db); a zero db gives nan (0/0) or +-inf (x/0)
discritize(val, db, bmin) ==
  IF db.num = 0
    THEN [kind |-> IF val = bmin THEN "nan" ELSE "inf", j |-> 0]
    ELSE [kind |-> "int", j |-> ((val - bmin) * db.den) \div db.num]

\* position (1-based) that index idx reads in an array of length n, 0 when the
\* index raises
index_pos(idx, n) ==
  IF idx.kind # "int" THEN 0
  ELSE IF 0 <= idx.j /\ idx.j < n THEN idx.j + 1
  ELSE IF -n <= idx.j /\ idx.j < 0 THEN n + idx.j + 1
  ELSE 0

evaluate(fv, state) ==
  LET idx   == [f \in Features |->
                  discritize(fv[f], feature_bin_deltas[f], feature_bin_mins[f])]
      dist  == distributions[state]
      \* self._distributions[state][i][j] for i, j in enumerate(idx)
      pos   == [f \in Features |->
                  IF f > Len(dist) THEN 0 ELSE index_pos(idx[f], Len(dist[f]))]
      fails == { f \in Features : pos[f] = 0 }
      first == SetMin(fails)
  IN /\ ret' = [op |-> "evaluate", fv |-> fv, state |-> state, idx |-> idx, pos |-> pos,
                val |-> IF fails = {} THEN "sum"
                          ELSE IF first > Len(dist) THEN "IndexError"
                          ELSE IF idx[first].kind = "nan" THEN "ValueError"
                          ELSE IF idx[first].kind = "inf" THEN "OverflowError"
                          ELSE "IndexError",
                \* the terms of sum(logp)
                logp |-> IF fails = {} THEN [f \in Features |-> dist[f][pos[f]]] ELSE << >>]
     /\ UNCHANGED <<evars, cvars, mvars, lvars, tvars>>

----------------------------------------------------------------------------
(* An estimator object over the states ["junk", "whiskers"], constructed      *)
(* without data, then estimate and evaluate calls in any order.               *)

\* EmmissionDistributions.__init__ without wvd and traj
InitEstimator ==
  /\ feature_bin_deltas = [f \in Features |-> [num |-> 0, den |-> 1]]
  /\ feature_bin_mins = [f \in Features |-> 0]
  /\ distributions = [s \in { TwoStates[i] : i \in DOMAIN TwoStates } |-> << >>]

\* no ordinal classifier has been built
NoMultiState ==
  /\ wvd = << >> /\ states = << >> /\ nsteps = 0 /\ classmap = << >> /\ visited = << >>

\* LeftRightModel.__init__ (and no left-right model at all)
InitLeftRight ==
  /\ startprob = << >> /\ transitions = << >> /\ simple_model = << >>

\* no measurements table has been made
NoTable ==
  /\ measurements = << >> /\ sort_state = "None"

Init ==
  /\ InitEstimator
  /\ frames = {} /\ labelled = {}
  /\ NoMultiState
  /\ InitLeftRight
  /\ NoTable
  /\ ret = [op |-> "init"]

\* evaluate changes nothing but ret, and every call overwrites ret: a call made
\* after an evaluate reaches the state the same call reaches without that
\* evaluate.  Both actions are therefore explored from the states an estimate
\* (or the constructor) left, which reaches every reachable state.
Estimate ==
  /\ ret.op \in {"init", "estimate"}
  /\ Len(distributions[TwoStates[1]]) < MaxEstimates * NFeat
  /\ \E n \in 0 .. MaxRows : \E data \in all_features(n) : estimate(data)

Evaluate ==
  /\ ret.op \in {"init", "estimate"}
  /\ \E fv \in FeatureVectors(QueryVals), state \in DOMAIN distributions : evaluate(fv, state)

Next == Estimate \/ Evaluate

Spec == Init /\ [][Next]_vars

----------------------------------------------------------------------------
(* An EDTwoState object constructed with do_estimate = False on some          *)
(* trajectories, and calls of the classifier it holds.                        *)

InitTwoState ==
  /\ InitEstimator
  /\ \E t \in TrajReps : frames = trajframes(t) /\ labelled = itertraj(t)
  /\ NoMultiState
  /\ InitLeftRight
  /\ NoTable
  /\ ret = [op |-> "init"]

\* classify(wvd, traj, frameId, segmentId); the ids asked about may lie
\* outside the labelled frames and segments
Classify ==
  \E frameId \in 0 .. NFrames, segmentId \in 0 .. NSegs :
    /\ ret' = [op |-> "classify", fid |-> frameId, wid |-> segmentId,
               val |-> classifier(frames, labelled, frameId, segmentId)]
    /\ UNCHANGED <<evars, cvars, mvars, lvars, tvars>>

NextTwoState == Classify

SpecTwoState == InitTwoState /\ [][NextTwoState]_vars

\* C1 (as claimed): the binary classifier returns 1 iff (frameId, segmentId)
\* is an entry of some trajectory, 0 when it is not but frameId appears in
\* some trajectory, and -1 iff frameId appears in no trajectory; the -1
\* decision depends on the frame id only.
C1_BinaryClassifier ==
  ret.op = "classify" =>
    LET member  == <<ret.fid, ret.wid>> \in labelled
        inframe == \E e \in labelled : e[1] = ret.fid
    IN /\ (ret.val = 1) <=> member
       /\ (ret.val = -1) <=> ~inframe
       /\ (~member /\ inframe) => ret.val = 0

----------------------------------------------------------------------------
(* Properties of the estimator *)

StateNames == DOMAIN distributions

\* the tables the most recent successful estimate call appended for a state
LatestTables(s) ==
  SubSeq(distributions[s], Len(distributions[s]) - NFeat + 1, Len(distributions[s]))

\* C2 (as claimed): estimate overwrites the previous distributions.  After any
\* sequence of estimate calls every state holds exactly one table per feature,
\* and the terms evaluate sums are read from the tables of the most recent
\* estimate call.
C2_EstimateOverwrites ==
  /\ \A s \in StateNames : Len(distributions[s]) \in {0, NFeat}
  /\ (ret.op = "evaluate" /\ ret.val = "sum") =>
        \A f \in Features : ret.logp[f] = LatestTables(ret.state)[f][ret.pos[f]]

BelowRange(f) == ret.fv[f] < feature_bin_mins[f]
AboveRange(f) ==
  (ret.fv[f] - feature_bin_mins[f]) * feature_bin_deltas[f].den
    >= Len(distributions[ret.state][f]) * feature_bin_deltas[f].num

\* C4 (as claimed): evaluate on a feature value outside the fitted bin range
\* raises or reads the nearest edge bin, never another bin.
C4_RaiseOrClamp ==
  (ret.op = "evaluate" /\ Len(distributions[ret.state]) >= NFeat) =>
    \A f \in Features :
      feature_bin_deltas[f].num > 0 =>
        /\ BelowRange(f) => (ret.val # "sum" \/ ret.pos[f] = 1)
        /\ AboveRange(f) =>
             (ret.val # "sum" \/ ret.pos[f] = Len(distributions[ret.state][f]))

----------------------------------------------------------------------------
(* EDMultiState: the ordinal (left-right) classifier *)

\* keys w.y[0] of the segments of a whiskers dictionary
YVals == {0, 1}

\* whiskers dictionary: fid -> (wid -> segment); a segment is its key y[0]
Wvds == PartialMaps(FrameIds, PartialMaps(SegIds, [y : YVals]))

\* A string built from a format template: "junk%d" % t is the template applied
\* to <<t>>, the bare template "junk%d" is the template applied to nothing.
Template(fmt) == [fmt |-> fmt, arg |-> << >>]
Format(fmt, t) == [fmt |-> fmt, arg |-> <<t>>]

names == <<"junk%d", "whisker%d">>

\* all orders in which a set can be enumerated
Orders(S) == { o \in [1 .. Cardinality(S) -> S] : \A i, j \in DOMAIN o : i # j => o[i] # o[j] }

\* sorted( wv.items(), cmp = wrowcmp ): wcmp compares y[0]; equal keys keep the
\* order of wv.items(), which the dict leaves unspecified
sorted_items(wv) ==
  { o \in Orders(DOMAIN wv) : \A i, j \in DOMAIN o : i < j => wv[o[i]].y <= wv[o[j]].y }

next_t_always(isw, t) == t + 1

\* the counter after a segment: t += 1 for a trajectory member only
next_t(isw, t) == IF isw THEN t + 1 ELSE t

\* name = names[1]%t for a member, names[0]%t for junk, with the counter as it
\* is before the member's increment
segment_name(isw, t) == IF isw THEN Format(names[2], t) ELSE Format(names[1], t)

\* the loop over one frame's sorted segments, from position k with counter t:
\* the names given, in visiting order, and the final counter
RECURSIVE frame_walk(_, _, _, _, _)
frame_walk(order, fid, lab, k, t) ==
  IF k > Len(order) THEN [names |-> << >>, t |-> t]
  ELSE LET isw  == <<fid, order[k]>> \in lab
           rest == frame_walk(order, fid, lab, k + 1, next_t(isw, t))
       IN [names |-> <<segment_name(isw, t)>> \o rest.names, t |-> rest.t]

nsteps_of_min(ts) == SetMin({0} \cup ts)

\* self._nsteps = max(self._nsteps, t) over the frames, from 0
nsteps_of(ts) == SetMax({0} \cup ts)

\* the sorted orders of all frames: for each frame one order sorted() can return
SortedOrders(w) ==
  { o \in [DOMAIN w -> UNION { sorted_items(w[fid]) : fid \in DOMAIN w }] :
      \A fid \in DOMAIN w : o[fid] \in sorted_items(w[fid]) }

\* the loops of EDMultiState._make_classifer(wvd, traj) when frame fid is
\* visited in the order order[fid]: classmap, the set states and _nsteps
discover(w, t, order) ==
  LET lab  == itertraj(t)
      walk == [fid \in DOMAIN w |-> frame_walk(order[fid], fid, lab, 1, 0)]
      keys == UNION { { <<fid, order[fid][k]>> : k \in DOMAIN order[fid] } : fid \in DOMAIN w }
      pos(fid, wid) == CHOOSE k \in DOMAIN order[fid] : order[fid][k] = wid
  IN [labelled |-> lab,
      frames   |-> trajframes(t),
      classmap |-> [key \in keys |-> walk[key[1]].names[pos(key[1], key[2])]],
      states   |-> UNION { { walk[fid].names[k] : k \in DOMAIN walk[fid].names } : fid \in DOMAIN w },
      nsteps   |-> nsteps_of({ walk[fid].t : fid \in DOMAIN w })]

\* self._states = list(states): the set is enumerated in an order the
\* language leaves open
list_of_set(S) == Orders(S)

\* statemap = dict( [(n,i) for i,n in enumerate(self._states) ] )
statemap(st) == [n \in { st[i] : i \in DOMAIN st } |-> (CHOOSE i \in DOMAIN st : st[i] = n) - 1]

\* the closure returned by EDMultiState._make_classifer; a pair missing from
\* classmap raises KeyError
multi_classifier(fid, wid) ==
  IF fid \in frames
    THEN (IF <<fid, wid>> \in DOMAIN classmap
            THEN [val |-> statemap(states)[classmap[<<fid, wid>>]], exc |-> "None"]
            ELSE [val |-> -1, exc |-> "KeyError"])
    ELSE [val |-> -1, exc |-> "None"]

\* EDMultiState._make_classifer(wvd, traj) with every choice the language
\* leaves open
make_classifer(w, t) ==
  \E order \in SortedOrders(w) :
    LET d == discover(w, t, order)
    IN \E enum \in list_of_set(d.states) :
         /\ labelled' = d.labelled
         /\ frames' = d.frames
         /\ wvd' = w
         /\ visited' = order
         /\ nsteps' = d.nsteps
         /\ classmap' = d.classmap
         /\ states' = enum

----------------------------------------------------------------------------
(* An EDMultiState object is constructed with do_estimate = False; then the    *)
(* classifier is rebuilt on the same inputs (as every estimate call does) and  *)
(* called.                                                                     *)

InitMultiState ==
  /\ InitEstimator
  /\ frames = {} /\ labelled = {}
  /\ NoMultiState
  /\ InitLeftRight
  /\ NoTable
  /\ ret = [op |-> "init"]

\* EDMultiState(wvd, traj, do_estimate = False)
Construct ==
  /\ ret.op = "init"
  /\ \E w \in Wvds, t \in TrajReps : make_classifer(w, t)
  /\ ret' = [op |-> "EDMultiState"]
  /\ UNCHANGED <<evars, lvars, tvars>>

\* self._classifier = self._make_classifer(wvd, traj) with the inputs of the
\* construction.  A classifier call changes nothing but ret: the rebuild is
\* explored from the states a build left.
Rebuild ==
  /\ ret.op \in {"EDMultiState", "make_classifer"}
  /\ \E t \in { tt \in TrajReps : itertraj(tt) = labelled } : make_classifer(wvd, t)
  /\ ret' = [op |-> "make_classifer"]
  /\ UNCHANGED <<evars, lvars, tvars>>

ClassifyOrdinal ==
  /\ ret.op \in {"EDMultiState", "make_classifer"}
  /\ \E fid \in FrameIds, wid \in SegIds :
       ret' = [op |-> "classify", fid |-> fid, wid |-> wid, val |-> multi_classifier(fid, wid)]
  /\ UNCHANGED <<evars, cvars, mvars, lvars, tvars>>

NextMultiState == Construct \/ Rebuild \/ ClassifyOrdinal

SpecMultiState == InitMultiState /\ [][NextMultiState]_vars

----------------------------------------------------------------------------
(* Properties of the ordinal classifier *)

Junk(k) == Format("junk%d", k)
Whisker(k) == Format("whisker%d", k)

\* the names in the state list
StateSet == { states[i] : i \in DOMAIN states }

IsMember(fid, wid) == <<fid, wid>> \in labelled

\* trajectory members among the segments of a frame
MembersOf(fid) == { wid \in DOMAIN wvd[fid] : IsMember(fid, wid) }

\* the largest number of trajectory members in one frame
MaxMembers == SetMax({0} \cup { Cardinality(MembersOf(fid)) : fid \in DOMAIN wvd })

\* C5 (as claimed): the discovered state names are exactly junk{k} and
\* whisker{k} for k in [0, nsteps), 2 x nsteps names, nsteps being the largest
\* per-frame member count.
C5_TwoNamesPerStep ==
  /\ nsteps = MaxMembers
  /\ StateSet = { Junk(k) : k \in 0 .. nsteps - 1 } \cup { Whisker(k) : k \in 0 .. nsteps - 1 }
  /\ Cardinality(StateSet) = 2 * nsteps
  /\ Len(states) = 2 * nsteps

\* C5 (amended): nsteps is the largest per-frame member count; the discovered
\* names are whisker{k} for every k in [0, nsteps) and no other whisker name,
\* plus some of the names junk{k}, k in [0, nsteps] (junk{nsteps} names a
\* non-member sorted after the last member); the list holds each name once, so
\* its size lies between nsteps and 2 x nsteps + 1.
C5_NamesWithinSteps ==
  /\ nsteps = MaxMembers
  /\ { n \in StateSet : n.fmt = "whisker%d" } = { Whisker(k) : k \in 0 .. nsteps - 1 }
  /\ { n \in StateSet : n.fmt = "junk%d" } \subseteq { Junk(k) : k \in 0 .. nsteps }
  /\ \A n \in StateSet : n.fmt \in {"junk%d", "whisker%d"}
  /\ Len(states) = Cardinality(StateSet)
  /\ nsteps <= Len(states) /\ Len(states) <= 2 * nsteps + 1

\* a build found members and a junk segment after the last member of a frame,
\* and a frame with two members
C5_Witness ==
  /\ nsteps = 2
  /\ Junk(1) \in StateSet
  /\ Junk(0) \notin StateSet

\* members of frame fid visited before position k of the visiting order
MembersBefore(fid, k) ==
  Cardinality({ j \in 1 .. k - 1 : IsMember(fid, visited[fid][j]) })

\* C6: per frame the segments are visited in ascending order of y[0], every
\* segment once; a member is named whisker{t} and a non-member junk{t}, where
\* t counts from 0 the members visited before it in that frame: the members
\* get whisker0, whisker1, ... without gap or repeat.
C6_OrdinalNaming ==
  \A fid \in DOMAIN wvd :
    LET order == visited[fid]
    IN /\ { order[k] : k \in DOMAIN order } = DOMAIN wvd[fid]
       /\ Len(order) = Cardinality(DOMAIN wvd[fid])
       /\ \A i, j \in DOMAIN order : i < j => wvd[fid][order[i]].y <= wvd[fid][order[j]].y
       /\ \A k \in DOMAIN order :
            classmap[<<fid, order[k]>>] =
              IF IsMember(fid, order[k]) THEN Whisker(MembersBefore(fid, k))
                                         ELSE Junk(MembersBefore(fid, k))
       /\ { classmap[<<fid, wid>>] : wid \in MembersOf(fid) }
            = { Whisker(k) : k \in 0 .. Cardinality(MembersOf(fid)) - 1 }

\* a frame where a non-member is visited after a member, and a frame with two
\* members
C6_Witness ==
  /\ \E fid \in DOMAIN wvd : \E k \in DOMAIN visited[fid] :
       /\ ~IsMember(fid, visited[fid][k])
       /\ MembersBefore(fid, k) = 1
       /\ classmap[<<fid, visited[fid][k]>>] = Junk(1)
  /\ \E fid \in DOMAIN wvd : Cardinality(MembersOf(fid)) = 2

\* C7 (as claimed): a second construction on the same training segments and
\* labels, visiting the segments in the same order, gives every state name the
\* index the first gave it (and so every (frame, segment) the same class).
C7_DeterministicIndex ==
  [][(ret.op # "init" /\ ret'.op = "make_classifer"
        /\ wvd' = wvd /\ labelled' = labelled /\ visited' = visited)
       => (states' = states /\ statemap(states') = statemap(states))]_vars

----------------------------------------------------------------------------
(* LeftRightModel.train_time_independent *)

\* numpy reads index -1 of an axis of length 2 at position 1
axis2(i) == IF i < 0 THEN i + 2 ELSE i

\* wids = wvd.keys(): the keys of the whiskers dictionary, which are frame
\* ids, in the order keys() returns them (the frame fid itself is not used)
wids_of(w, fid, keys) == keys

\* the classes of one frame's scan: classify(wvd, traj, fid, wid) for wid in wids
scan(fr, lab, fid, wids) == [k \in DOMAIN wids |-> classifier(fr, lab, fid, wids[k])]

\* S, T, E after the counting loop; a frame whose first class is -1 is skipped
count_model(w, fr, lab, keys) ==
  LET cls(fid) == scan(fr, lab, fid, wids_of(w, fid, keys))
      counted  == { fid \in DOMAIN w : Len(cls(fid)) > 0 /\ cls(fid)[1] # -1 }
  IN [S |-> [i \in 1 .. 2 |-> Cardinality({ fid \in counted : cls(fid)[1] = i - 1 })],
      T |-> [a \in 1 .. 2 |-> [b \in 1 .. 2 |->
               Cardinality({ p \in counted \X (1 .. Cardinality(DOMAIN w)) :
                               /\ p[2] < Len(cls(p[1]))
                               /\ axis2(cls(p[1])[p[2]]) = a - 1
                               /\ axis2(cls(p[1])[p[2] + 1]) = b - 1 })]],
      E |-> [i \in 1 .. 2 |->
               Cardinality({ fid \in counted : axis2(cls(fid)[Len(cls(fid))]) = i - 1 })]]

\* v /= v.sum() followed by log2: entry i is log2(num/den); den = 0 is nan
log2_normalized(v) == [i \in DOMAIN v |-> [num |-> v[i], den |-> SeqSum(v, Len(v))]]

\* names = {0:"whisker%d",1:"junk%d"}
lrnames == <<"whisker%d", "junk%d">>

\* map_state(state, time): the template is formatted for states 1 and 2 only
map_state(state, time) ==
  LET n == lrnames[state + 1]
  IN IF state \in {1, 2} THEN Format(n, time) ELSE Template(n)

\* d[k] = v on a dict
DictSet(d, k, v) == [x \in DOMAIN d \cup {k} |-> IF x = k THEN v ELSE d[x]]

\* the start loop: self._startprob[map_state(dst,0)] = logp for dst, logp in enumerate(S)
start_loop(sp, S) == DictSet(DictSet(sp, map_state(0, 0), S[1]), map_state(1, 0), S[2])

\* the middle loop over src, dst and time in xrange(n):
\* self._transitions.setdefault( map_state(src,time), {} )[map_state(dst,time)] = logp
middle_loop(tr, T, n) ==
  LET writes == { [src |-> map_state(a, time), dst |-> map_state(b, time), logp |-> T[a + 1][b + 1]] :
                    a \in 0 .. 1, b \in 0 .. 1, time \in 0 .. n - 1 }
      srcs   == { x.src : x \in writes }
      old(s) == IF s \in DOMAIN tr THEN tr[s] ELSE << >>
  IN [s \in DOMAIN tr \cup srcs |->
        [d \in DOMAIN old(s) \cup { x.dst : x \in { y \in writes : y.src = s } } |->
           IF \E x \in writes : x.src = s /\ x.dst = d
             THEN (CHOOSE x \in writes : x.src = s /\ x.dst = d).logp
             ELSE old(s)[d]]]

\* train_time_independent(wvd, traj).  The name lrmodel read at hmm.py:306 is
\* bound nowhere in the module: the call either raises NameError there (the
\* start map is already written) or, where the name resolves to the state
\* model just built, runs the middle loop.
train_time_independent(w, t) ==
  \E keys \in Orders(DOMAIN w), lrmodel_bound \in BOOLEAN :
    LET c == count_model(w, trajframes(t), itertraj(t), keys)
        S == log2_normalized(c.S)
        E == log2_normalized(c.E)
        T == [a \in 1 .. 2 |-> log2_normalized(c.T[a])]
    IN /\ simple_model' = [S |-> S, T |-> T, E |-> E]
       /\ make_classifer(w, t)
       /\ startprob' = start_loop(startprob, S)
       /\ transitions' = IF lrmodel_bound THEN middle_loop(transitions, T, nsteps')
                                          ELSE transitions
       /\ ret' = [op |-> "train_time_independent", keys |-> keys,
                  exc |-> IF lrmodel_bound THEN "None" ELSE "NameError"]
       /\ UNCHANGED <<evars, tvars>>

----------------------------------------------------------------------------
(* A LeftRightModel is constructed and trained.                              *)

InitTrain ==
  /\ InitEstimator
  /\ frames = {} /\ labelled = {}
  /\ NoMultiState
  /\ InitLeftRight
  /\ NoTable
  /\ ret = [op |-> "init"]

Train ==
  /\ ret.op = "init"
  /\ \E w \in Wvds, t \in TrajReps : train_time_independent(w, t)

NextTrain == Train

SpecTrain == InitTrain /\ [][NextTrain]_vars

----------------------------------------------------------------------------
(* Properties of the trained left-right model *)

Trained == ret.op = "train_time_independent"

\* the binary class of a segment of a frame that has ground truth
BinaryClass(fid, wid) == IF IsMember(fid, wid) THEN 1 ELSE 0

\* frames of the training set that have ground truth and at least one segment
TruthFrames == { fid \in DOMAIN wvd : fid \in frames /\ DOMAIN wvd[fid] # {} }

\* for every frame one order of its own segment ids
SegmentOrders ==
  { o \in [DOMAIN wvd -> UNION { Orders(DOMAIN wvd[fid]) : fid \in DOMAIN wvd }] :
      \A fid \in DOMAIN wvd : o[fid] \in Orders(DOMAIN wvd[fid]) }

\* C8 (as claimed): on a training set whose frames all hold a segment, S, T
\* and E count, for every frame with ground truth, the binary classes of the
\* frame's own segments taken in some order: the first into S, each
\* consecutive pair into T, the last into E; other frames contribute nothing.
C8_CountsOwnSegments ==
  (Trained /\ \A fid \in DOMAIN wvd : DOMAIN wvd[fid] # {}) =>
    \E o \in SegmentOrders :
      LET cls(fid) == [k \in DOMAIN o[fid] |-> BinaryClass(fid, o[fid][k])]
      IN /\ \A i \in 0 .. 1 :
              /\ simple_model.S[i + 1].num
                   = Cardinality({ fid \in TruthFrames : cls(fid)[1] = i })
              /\ simple_model.E[i + 1].num
                   = Cardinality({ fid \in TruthFrames : cls(fid)[Len(cls(fid))] = i })
         /\ \A a, b \in 0 .. 1 :
              simple_model.T[a + 1][b + 1].num
                = Cardinality({ p \in TruthFrames \X (1 .. NSegs) :
                                  /\ p[2] < Len(cls(p[1]))
                                  /\ cls(p[1])[p[2]] = a
                                  /\ cls(p[1])[p[2] + 1] = b })

\* the names junk{time} and whisker{time} for time in [0, nsteps)
TimeIndexed == { Junk(k) : k \in 0 .. nsteps - 1 } \cup { Whisker(k) : k \in 0 .. nsteps - 1 }

\* C9 (as claimed): after training the start map is keyed by junk0 and
\* whisker0, the transition map's sources and destinations are exactly the
\* names junk{time}, whisker{time}, time in [0, nsteps), and every key is in
\* the model's state list.
C9_TimeIndexedKeys ==
  Trained =>
    /\ DOMAIN startprob = {Junk(0), Whisker(0)}
    /\ DOMAIN transitions = TimeIndexed
    /\ UNION { DOMAIN transitions[src] : src \in DOMAIN transitions } = TimeIndexed
    /\ DOMAIN startprob \subseteq StateSet
    /\ DOMAIN transitions \subseteq StateSet

\* C10 (as claimed): state 0 of the 2x2 estimate is junk and state 1 is
\* whiskers, so wherever the maps hold these keys: startprob[junk0] = log2 S[0],
\* startprob[whisker0] = log2 S[1], junk{t} -> whisker{t} is log2 T[0][1] and
\* whisker{t} -> junk{t} is log2 T[1][0].
C10_JunkWhiskerMeaning ==
  Trained =>
    /\ Junk(0) \in DOMAIN startprob => startprob[Junk(0)] = simple_model.S[1]
    /\ Whisker(0) \in DOMAIN startprob => startprob[Whisker(0)] = simple_model.S[2]
    /\ \A t \in 0 .. nsteps - 1 :
         /\ (Junk(t) \in DOMAIN transitions /\ Whisker(t) \in DOMAIN transitions[Junk(t)])
              => transitions[Junk(t)][Whisker(t)] = simple_model.T[1][2]
         /\ (Whisker(t) \in DOMAIN transitions /\ Junk(t) \in DOMAIN transitions[Whisker(t)])
              => transitions[Whisker(t)][Junk(t)] = simple_model.T[2][1]

\* an entry log2(num/den) is finite: neither nan (0/0) nor -inf (log2 of 0)
Finite(e) == e.num > 0 /\ e.den > 0

\* the log2 entries the start map and the transition map hold
StoredEntries ==
  { startprob[k] : k \in DOMAIN startprob }
    \cup UNION { { transitions[a][b] : b \in DOMAIN transitions[a] } : a \in DOMAIN transitions }

\* the training data is degenerate: a frame without segments, a start or end
\* vector or a transition row whose counts are all zero, or nsteps = 0
Degenerate ==
  \/ \E fid \in DOMAIN wvd : DOMAIN wvd[fid] = {}
  \/ simple_model.S[1].den = 0
  \/ simple_model.E[1].den = 0
  \/ \E a \in 1 .. 2 : simple_model.T[a][1].den = 0
  \/ nsteps = 0

\* C11 (as claimed): training on degenerate data fails with the
\* degenerate-training-data error and stores no start or transition table; a
\* training call that completes leaves no nan or infinite entry in the tables.
C11_DegenerateTrainingFails ==
  Trained =>
    /\ Degenerate => /\ ret.exc = "DegenerateTrainingDataError"
                     /\ startprob = << >>
                     /\ transitions = << >>
    /\ ret.exc = "None" => \A e \in StoredEntries : Finite(e)

----------------------------------------------------------------------------
(* LeftRightModel: transition_matrix and viterbi *)

\* an entry 0.0 of zeros( (n,n) ): as a log2 value, log2(1/1)
Zero == [num |-> 1, den |-> 1]

matrix_entry_row(tr, src, dst) ==
  IF src \in DOMAIN tr /\ src \in DOMAIN tr[src] THEN tr[src][src] ELSE Zero

\* T[isrc,idst] = self._transitions[ src ][ dst ]; on KeyError the entry stays 0.0
matrix_entry(tr, src, dst) ==
  IF src \in DOMAIN tr /\ dst \in DOMAIN tr[src] THEN tr[src][dst] ELSE Zero

\* the loops of transition_matrix over enumerate(self.states), twice
transition_matrix(st, tr) ==
  [isrc \in DOMAIN st |-> [idst \in DOMAIN st |-> matrix_entry(tr, st[isrc], st[idst])]]

\* start_matrix() and emmissions_matrix(whiskers) are `pass`: they return None
start_matrix == "None"
emmissions_matrix(whiskers) == "None"

\* self.states is None until train_time_independent has assigned it
\* (hmm.py:291, before the read of lrmodel): len(None) raises TypeError
Untrained == ret.op = "init"

\* transition_matrix()
TransitionMatrix ==
  /\ ret.op \in {"init", "train_time_independent"}
  /\ ret' = IF Untrained
              THEN [op |-> "transition_matrix", exc |-> "TypeError", val |-> << >>]
              ELSE [op |-> "transition_matrix", exc |-> "None",
                    val |-> transition_matrix(states, transitions)]
  /\ UNCHANGED <<evars, cvars, mvars, lvars, tvars>>

\* frame sequences to decode: frames of the training set, in any order
FrameSequences(w) ==
  UNION { { [k \in DOMAIN o |-> w[o[k]]] : o \in Orders(X) } : X \in SUBSET DOMAIN w }

\* viterbi(sequence): S, E and T are computed and dropped, the body ends in
\* `pass` and the call returns None (or raises what transition_matrix raises)
viterbi(sequence) ==
  LET S == start_matrix
      E == emmissions_matrix(sequence)
  IN /\ ret' = [op |-> "viterbi", sequence |-> sequence,
                exc |-> IF Untrained THEN "TypeError" ELSE "None",
                val |-> [kind |-> "None", path |-> << >>]]
     /\ UNCHANGED <<evars, cvars, mvars, lvars, tvars>>

Viterbi ==
  /\ ret.op \in {"init", "train_time_independent"}
  /\ \E sequence \in FrameSequences(wvd) : viterbi(sequence)

\* A LeftRightModel is constructed, trained and asked for its transition
\* matrix and for a decoding.  transition_matrix and viterbi change nothing
\* but ret: they are explored from the states the constructor or a training
\* call left.
NextModel == Train \/ TransitionMatrix \/ Viterbi

SpecModel == InitTrain /\ [][NextModel]_vars

\* the number of segments in a sequence of frames
RECURSIVE SegmentCount(_, _)
SegmentCount(seq, n) ==
  IF n = 0 THEN 0 ELSE Cardinality(DOMAIN seq[n]) + SegmentCount(seq, n - 1)

\* C12 (as claimed): viterbi on a trained model returns a label sequence with
\* exactly one label of the model's states per input segment (the claim asks
\* further that this path have the largest total log-probability of all label
\* paths).
C12_ViterbiLabelPath ==
  (ret.op = "viterbi" /\ ret.exc = "None") =>
    /\ ret.val.kind = "path"
    /\ Len(ret.val.path) = SegmentCount(ret.sequence, Len(ret.sequence))
    /\ \A k \in DOMAIN ret.val.path : ret.val.path[k] \in StateSet

----------------------------------------------------------------------------
(* Further properties of the estimator *)

\* the rows of a table that carry a state (the classifier did not return -1)
LabelledRows(data) == { r \in DOMAIN data : data[r].cls # -1 }

\* C13 (as claimed): the stored bin minimum and bin width of every feature are
\* those of the rows that feed the histograms, the rows classified -1 being
\* left out before the extrema are taken: a row without ground truth changes
\* neither.
C13_RangeOverLabelledRows ==
  (ret.op = "estimate" /\ ret.val = "None" /\ LabelledRows(ret.data) # {}) =>
    \A f \in Features :
      LET vals == { ret.data[r].fv[f] : r \in LabelledRows(ret.data) }
      IN /\ feature_bin_mins[f] = SetMin(vals)
         /\ feature_bin_deltas[f].num * NBins
              = (SetMax(vals) - SetMin(vals)) * feature_bin_deltas[f].den

\* C14: every stored histogram, before the log transform, has only strictly
\* positive bin probabilities num/den and they sum to 1, also for a state no
\* row of the table was classified into.
C14_PositiveAndNormalized ==
  ret.op = "estimate" =>
    \A s \in StateNames : \A i \in DOMAIN distributions[s] :
      LET h == distributions[s][i]
      IN /\ \A k \in DOMAIN h : h[k].num > 0 /\ h[k].den > 0
         /\ \A k \in DOMAIN h : h[k].den = h[1].den
         /\ SeqSum([k \in DOMAIN h |-> h[k].num], Len(h)) = h[1].den

\* an estimate fitted histograms for a state that none of its rows carries,
\* and for a state that some of its rows carry
C14_Witness ==
  /\ ret.op = "estimate" /\ ret.val = "None"
  /\ \A r \in DOMAIN ret.data : ret.data[r].cls # 1
  /\ \E r \in DOMAIN ret.data : ret.data[r].cls = 0
  /\ Len(distributions["whiskers"]) >= NFeat
  /\ \A k \in 1 .. NBins : distributions["whiskers"][Len(distributions["whiskers"])][k].num = 1
  /\ \E k \in 1 .. NBins : distributions["junk"][Len(distributions["junk"])][k].num > 1

\* C18 (as claimed): evaluate is defined on the training data.  Called right
\* after an estimate with the feature vector of a row that estimate counted
\* into a histogram, for any state, every discretized index lies within the
\* histogram read for its feature and the call returns the sum of the stored
\* log2-probabilities.  (Stated for tables where every feature takes more
\* than one value.)
C18_DefinedOnTrainingData ==
  [][(ret.op = "estimate" /\ ret.val = "None" /\ ret'.op = "evaluate"
        /\ \A f \in Features : ColMax(ret.data, f) > ColMin(ret.data, f)
        /\ \E r \in LabelledRows(ret.data) : ret.data[r].fv = ret'.fv)
       => /\ \A f \in Features :
               /\ ret'.idx[f].kind = "int"
               /\ 0 <= ret'.idx[f].j
               /\ ret'.idx[f].j < Len(distributions[ret'.state][f])
          /\ ret'.val = "sum"]_vars

----------------------------------------------------------------------------
(* traj.py: the measurements table.  A row is read here through its fid and   *)
(* its state, the two fields the sort orders are about.  The functions of     *)
(* the native library ctraj are not part of the sources: they are modelled    *)
(* from what their callers, the callers' comments and the tests say of them.  *)

Rows == [fid : TableFids, state : TableStates]
Tables == UNION { [1 .. n -> Rows] : n \in 0 .. MaxTableRows }

\* the rows of m in every order
RowOrders(m) == { [k \in DOMAIN m |-> m[o[k]]] : o \in Orders(DOMAIN m) }

ByStateTime(m) ==
  \A i, j \in DOMAIN m :
    i < j => \/ m[i].state < m[j].state
             \/ (m[i].state = m[j].state /\ m[i].fid <= m[j].fid)

ByTime(m) == \A i, j \in DOMAIN m : i < j => m[i].fid <= m[j].fid

\* ctraj.Sort_Measurements_Table_State_Time and ctraj.Sort_Measurements_Table_Time:
\* the tables the native sort may leave (rows that compare equal in any order)
Sort_Measurements_Table_State_Time(m) == { x \in RowOrders(m) : ByStateTime(x) }
Sort_Measurements_Table_Time(m) == { x \in RowOrders(m) : ByTime(x) }

\* ctraj.Compute_Velocities fills the velocity fields and ctraj.Build_Distributions
\* reads the table: the rows stay where they are
Compute_Velocities(m) == m
Build_Distributions(m) == m

\* ctraj.Build_Velocity_Distributions "changes table's sort order": it leaves
\* the rows in time order
Build_Velocity_Distributions(m) == Sort_Measurements_Table_Time(m)

\* ctraj.Solve gives the rows their states and leaves them in time order
Solve(m) ==
  { x \in [DOMAIN m -> Rows] :
      /\ ByTime(x)
      /\ \E y \in RowOrders(m) : \A k \in DOMAIN m : x[k].fid = y[k].fid }

\* sort_by_state_time on a table with rows m and cached label lab: the native
\* sort runs unless the label is already "state,time"
sort_by_state_time(m, lab) ==
  IF lab # "state,time"
    THEN { [m |-> x, lab |-> "state,time", native |-> TRUE] :
             x \in Sort_Measurements_Table_State_Time(m) }
    ELSE { [m |-> m, lab |-> lab, native |-> FALSE] }

\* sort_by_time
sort_by_time(m, lab) ==
  IF lab # "time"
    THEN { [m |-> x, lab |-> "time", native |-> TRUE] : x \in Sort_Measurements_Table_Time(m) }
    ELSE { [m |-> m, lab |-> lab, native |-> FALSE] }

\* update_velocities: self.sort_by_state_time(), then ctraj.Compute_Velocities
update_velocities(m, lab) ==
  { [m |-> Compute_Velocities(r.m), lab |-> r.lab, native |-> r.native] :
      r \in sort_by_state_time(m, lab) }

build_label_kept(lab) == lab

\* table._sort_state = 'time'
build_label(lab) == "time"

\* Distributions.build(table)
build(m, lab) ==
  UNION { { [m |-> x, lab |-> build_label(r.lab), native |-> r.native] :
              x \in Build_Velocity_Distributions(Build_Distributions(r.m)) } :
          r \in sort_by_state_time(m, lab) }

\* solve(table)
solve(m, lab) == { [m |-> x, lab |-> "time", native |-> TRUE] : x \in Solve(m) }

load_label_kept(lab) == lab

\* self._sort_state = None #unknown
load_label(lab) == "None"

\* _load(filename) of a file that exists: the rows of the file, in its order
load(m, lab) == { [m |-> x, lab |-> load_label(lab), native |-> TRUE] : x \in Tables }

----------------------------------------------------------------------------
(* A MeasurementsTable is made and then used through its methods, through     *)
(* Distributions and through solve, in any order.                             *)

InitTable ==
  /\ InitEstimator
  /\ frames = {} /\ labelled = {}
  /\ NoMultiState
  /\ InitLeftRight
  /\ NoTable
  /\ ret = [op |-> "init"]

\* what a call on the table leaves: rows, label, and the call's name in ret
TableCall(name, results) ==
  /\ ret.op # "init"
  /\ \E r \in results :
       /\ measurements' = r.m
       /\ sort_state' = r.lab
       /\ ret' = [op |-> name, exc |-> "None", native |-> r.native]
  /\ UNCHANGED <<evars, cvars, mvars, lvars>>

\* MeasurementsTable(datasource): from an array, or from a file through _load
\* (a missing file raises IOError and no table is made)
NewTable ==
  /\ ret.op = "init"
  /\ \E data \in Tables, fromfile \in BOOLEAN :
       /\ measurements' = data
       /\ sort_state' = IF fromfile THEN load_label("None") ELSE "None"
       /\ ret' = [op |-> "MeasurementsTable", exc |-> "None", native |-> TRUE]
  /\ UNCHANGED <<evars, cvars, mvars, lvars>>

SortByStateTime == TableCall("sort_by_state_time", sort_by_state_time(measurements, sort_state))

SortByTime == TableCall("sort_by_time", sort_by_time(measurements, sort_state))

UpdateVelocities == TableCall("update_velocities", update_velocities(measurements, sort_state))

\* Distributions.build(table), also as called by Distributions(table)
Build == TableCall("build", build(measurements, sort_state))

SolveTable == TableCall("solve", solve(measurements, sort_state))

\* _load(filename) on the table: a missing file raises IOError before anything
\* is touched
Load ==
  \/ TableCall("_load", load(measurements, sort_state))
  \/ /\ ret.op # "init"
     /\ ret' = [op |-> "_load", exc |-> "IOError", native |-> FALSE]
     /\ UNCHANGED <<evars, cvars, mvars, lvars, tvars>>

\* save, asarray and the get_* methods read the table, as does Distributions()
\* without a table
Read ==
  /\ ret.op # "init"
  /\ \E name \in {"save", "asarray", "get_data", "Distributions"} :
       ret' = [op |-> name, exc |-> "None", native |-> FALSE]
  /\ UNCHANGED <<evars, cvars, mvars, lvars, tvars>>

NextTable ==
  \/ NewTable
  \/ SortByStateTime
  \/ SortByTime
  \/ UpdateVelocities
  \/ Build
  \/ SolveTable
  \/ Load
  \/ Read

SpecTable == InitTable /\ [][NextTable]_vars

----------------------------------------------------------------------------
(* Properties of the measurements table *)

C17_LabelFollowsLastCall ==
  [][IF ret'.exc # "None" THEN sort_state' = sort_state
     ELSE IF ret'.op \in {"MeasurementsTable", "_load"} THEN sort_state' = "None"
     ELSE IF ret'.op \in {"sort_by_state_time", "update_velocities"} THEN sort_state' = "state,time"
     ELSE IF ret'.op \in {"sort_by_time", "build", "solve"} THEN sort_state' = "time"
     ELSE sort_state' = sort_state]_vars

\* a _load has left rows that are in neither order, under the label None
C17_Witness ==
  /\ ret.op = "_load" /\ ret.exc = "None"
  /\ sort_state = "None"
  /\ Len(measurements) >= 2
  /\ ~ByTime(measurements)
  /\ ~ByStateTime(measurements)

====
